---------------------------- MODULE Spec2Model ----------------------------
(***************************************************************************)
(* A model of svi (src/svi.c), a small modal text editor: the line buffer, *)
(* the cursor, the three key handlers, the colon-command interpreter and   *)
(* the batched file writer.                                                *)
(*                                                                         *)
(* Bytes are integers (their ASCII codes).  A C string is a sequence of    *)
(* memory cells: cell i of the C array is element i + 1 of the sequence.   *)
(* The sequence holds the cells from index 0 up to and including the first *)
(* terminator; what lies behind that terminator (stale bytes of an earlier *)
(* longer text, or memory malloc never initialised) is not recorded.  When *)
(* an operation overwrites the terminator without writing a new one, the   *)
(* text runs on into those unrecorded cells: the cells then read are a     *)
(* nondeterministic choice (Expose).                                       *)
(***************************************************************************)
EXTENDS Integers, Sequences, FiniteSets, TLC

(***************************************************************************)
(* Program constants (src/svi.c, "configurable macros").                   *)
(***************************************************************************)
INITIAL_BUFFER_ROWS == 32
BUF_SIZE_INCREMENT == 16
INITIAL_ROW_SIZE == 128
ROW_SIZE_INCREMENT == 64
IOV_SIZE == 32
INITIAL_CMD_SIZE == 16
CMD_SIZE_INCREMENT == 16

\* Bytes the code names.
NUL == 0
NEWLINE == 10
CH_SPACE == 32
CH_BANG == 33
CH_DOLLAR == 36
CH_ZERO == 48
CH_COLON == 58
CH_3 == 51
CH_A == 65
CH_B == 66
CH_C == 67
CH_D == 68
CH_LBRACKET == 91
CH_a == 97
CH_h == 104
CH_i == 105
CH_j == 106
CH_k == 107
CH_l == 108
CH_q == 113
CH_w == 119
CH_TILDE == 126
\* '\033', '\r', the <DEL> of line 443, the bound of line 449 and the first
\* byte that is no ASCII character.
ESC == 27
CR == 13
DEL == 127
ASCII_END == 127
HIGH_BYTE == 128

\* The largest size_t.  size_t is 64 bits wide on the usual build; the
\* model's integers are 32 bits wide, and every length of the model is far
\* below either, so a negative int cast to size_t compares the same way.
SIZE_MAX == 2 ^ 30 + (2 ^ 30 - 1)

\* The null pointer, as a row slot and as a file name: no str has a negative
\* length and no byte is negative.
NULL == [s |-> <<>>, len |-> -1, size |-> 0, alloc |-> 0]
NULLNAME == <<-1>>

(***************************************************************************)
(* Bounds of the model.  A session's environment env fixes what the        *)
(* terminal, the user and the storage offer it: sizes, the sizes term_size *)
(* reports; rowtexts, the texts typed into a row (a character is typed     *)
(* only if the row's first len bytes then form one of them); cmdtexts, the *)
(* same for the command buffer; names, what argv[1] may be; files, what    *)
(* the storage may hold at startup; faults, the I/O outcomes; record,      *)
(* whether the latest event is kept in ev.                                 *)
(***************************************************************************)
MaxWidth == 3
MaxHeight == 3
MaxRowLen == 3
MaxRows == 34
MaxCmdLen == 3
MaxInput == 4
MaxNotify == 2
MaxLong == 192
MaxSlots == 6

WinSize(w, h) == [i \in {0, 1} |-> IF i = 0 THEN w ELSE h]

\* The texts of 1 .. n bytes over chars.
RECURSIVE TextsUpTo(_, _)
TextsUpTo(chars, n) ==
    IF n = 0 THEN {}
    ELSE LET shorter == TextsUpTo(chars, n - 1)
         IN {<<c>> : c \in chars} \cup shorter
              \cup {Append(t, c) : t \in shorter, c \in chars}

\* The bytes an unterminated text can run on into.
Tails == {<<>>, <<CH_BANG>>}

\* The file names of the model, and what storage holds under a path that
\* does not exist.
\* "f", the name given on the command line, and "g", a name typed as an
\* argument; g alone is also a command the code gives no meaning to.
NameF == <<102>>
NameG == <<103>>
Paths == {NameF, NameG}
NoFile == <<-1>>
\* What a file that exists before the session holds.
OldContent == <<CH_q, NEWLINE>>
Files(f, g) == [p \in Paths |-> IF p = NameF THEN f ELSE g]

VARIABLES
    buf,              \* st.buf: [b, len, size], b[i] a row or NULL
    cmd,              \* st.cmd: the command buffer, a str
    size,             \* st.size: size[0] the width, size[1] the height
    x, y,             \* st.x, st.y: the cursor
    mode,             \* st.mode
    storedx,          \* st.storedx
    name,             \* st.name: NULL or a file name
    name_needs_free,  \* st.name_needs_free
    modified,         \* st.modified
    written,          \* st.written
    done,             \* st.done
    fs,               \* storage: what each path holds, or NoFile
    out,              \* what exec_cmd returned, printed and opened in the latest event
    saved,            \* history: the rows at the latest successful write
    wrote,            \* history: whether a write step has succeeded
    scn,              \* history: how far the events so far follow ScenarioA
    resized,          \* history: whether a resize event has happened
    ev,               \* history: the latest event, where the environment records it
    env,              \* the session's environment (never changes)
    pc,               \* where the process is: in term_init, the main loop, readkey, die
    key_c,            \* readkey's local c: a byte, or -1 while indeterminate
    stdin,            \* the bytes read() can deliver now, oldest first
    esc,              \* history: the bytes readkey consumed since the latest ESC it
                      \* read, <<>> once a byte that opens no such sequence was read
    arrived,          \* history: how many bytes have arrived on stdin
    handler,          \* whether winch is installed for SIGWINCH
    sigmask,          \* whether SIGWINCH is in the process's signal mask
    pending,          \* whether a SIGWINCH is pending
    win_resized,      \* the flag winch sets
    intr,             \* whether winch ran during the current pselect
    notified,         \* history: how many resize notifications were sent
    tattr,            \* the terminal's attributes: "cooked" (as found) or "raw"
    term_initialized  \* the flag die tests

EditorVars == <<buf, cmd, size, x, y, mode, storedx, name, name_needs_free, modified,
                written, done, fs, out, saved, wrote, scn, resized>>
KeyVars == <<pc, key_c, stdin, esc, arrived>>
SigVars == <<handler, sigmask, pending, win_resized, intr, notified>>
TtyVars == <<tattr, term_initialized>>
TermVars == <<KeyVars, SigVars, TtyVars>>

vars == <<EditorVars, ev, env, TermVars>>

(***************************************************************************)
(* Strings (struct str): s the cells, len, size the recorded capacity,     *)
(* alloc the bytes actually allocated.                                     *)
(***************************************************************************)
Min(a, b) == IF a < b THEN a ELSE b

\* (size_t)n for an int n.
SizeT(n) == IF n < 0 THEN SIZE_MAX + (n + 1) ELSE n

\* The index (1-based) of the first terminator of s, 0 if there is none.
FirstNul(s) ==
    IF \E k \in 1 .. Len(s) : s[k] = NUL
    THEN CHOOSE k \in 1 .. Len(s) : s[k] = NUL /\ \A m \in 1 .. (k - 1) : s[m] # NUL
    ELSE 0

\* The cells of s up to and including its first terminator.
Cut(s) == IF FirstNul(s) = 0 THEN s ELSE SubSeq(s, 1, FirstNul(s))

\* The text of the C string s: the bytes before its first terminator.
CText(s) == IF FirstNul(s) = 0 THEN s ELSE SubSeq(s, 1, FirstNul(s) - 1)

\* The first len bytes of a str.
Bytes(str) == SubSeq(str.s, 1, str.len)

\* What reading an unterminated text can find behind it.
Expose(str) ==
    IF FirstNul(str.s) # 0 THEN {str}
    ELSE {[str EXCEPT !.s = str.s \o t \o <<NUL>>] : t \in Tails}

\* str_insertchar growing the string one character too late.
str_insertchar_late(str, c, index, size_increment) ==
    LET grow == str.len + 1 > str.size
        nsize == IF grow THEN str.size + size_increment ELSE str.size
        nalloc == IF grow THEN nsize ELSE str.alloc
        idx == IF index > str.len THEN str.len ELSE index
        s == str.s
        ns == IF str.len = idx
              THEN SubSeq(s, 1, idx) \o <<c, NUL>> \o SubSeq(s, idx + 3, Len(s))
              ELSE SubSeq(s, 1, idx) \o <<c>> \o SubSeq(s, idx + 1, str.len + 1)
                     \o SubSeq(s, str.len + 3, Len(s))
    IN [s |-> Cut(ns), len |-> str.len + 1, size |-> nsize, alloc |-> nalloc]

str_insertchar(str, c, index, size_increment) ==
    LET grow == str.len + 1 >= str.size
        nsize == IF grow THEN str.size + size_increment ELSE str.size
        nalloc == IF grow THEN nsize ELSE str.alloc
        idx == IF index > str.len THEN str.len ELSE index
        s == str.s
        ns == IF str.len = idx
              THEN SubSeq(s, 1, idx) \o <<c, NUL>> \o SubSeq(s, idx + 3, Len(s))
              ELSE SubSeq(s, 1, idx) \o <<c>> \o SubSeq(s, idx + 1, str.len + 1)
                     \o SubSeq(s, str.len + 3, Len(s))
    IN [s |-> Cut(ns), len |-> str.len + 1, size |-> nsize, alloc |-> nalloc]

str_removechar(str, index) ==
    IF str.len = 0 THEN str
    ELSE LET idx == IF index > str.len THEN str.len ELSE index
             s == str.s
             ns == IF str.len - 1 = idx
                   THEN [s EXCEPT ![idx + 1] = NUL]
                   ELSE SubSeq(s, 1, idx) \o SubSeq(s, idx + 2, str.len + 1)
                          \o SubSeq(s, str.len + 1, Len(s))
         IN [str EXCEPT !.s = Cut(ns), !.len = str.len - 1]

(***************************************************************************)
(* Buffer management (struct buf).                                         *)
(***************************************************************************)
ROUNDUPTO(v, multiple) == ((v + multiple - 1) \div multiple) * multiple

\* buf_create followed by nothing else: size absent rows.
buf_create(sz) == [b |-> [i \in 0 .. (sz - 1) |-> NULL], len |-> 0, size |-> sz]

\* The scan of lines 865-867: from n down while n # 0 and slot n is absent.
RECURSIVE ScanBack(_, _)
ScanBack(b, n) == IF n # 0 /\ b[n] = NULL THEN ScanBack(b, n - 1) ELSE n

buf_resize(bf, sz) ==
    IF sz = bf.size THEN bf
    ELSE IF sz < bf.size
         THEN [b |-> [i \in 0 .. (sz - 1) |-> bf.b[i]],
               len |-> IF bf.len > sz THEN ScanBack(bf.b, sz - 1) ELSE bf.len,
               size |-> sz]
         ELSE [b |-> [i \in 0 .. (sz - 1) |-> IF i < bf.size THEN bf.b[i] ELSE NULL],
               len |-> bf.len,
               size |-> sz]

\* The row a first character creates (lines 798-803).
NewRow(c) == [s |-> <<c, NUL>>, len |-> 1, size |-> INITIAL_ROW_SIZE,
              alloc |-> INITIAL_ROW_SIZE]

\* buf->b[elem] as the code reads it, with no look at buf->size: a slot of
\* the array, or behind the array whatever the memory there holds
\* (env.beyond: a null pointer, or a pointer to some str).
Slot(bf, elem) == IF elem < bf.size THEN bf.b[elem] ELSE env.beyond

\* The array after lines 791-792 of buf_char_insert.
Grown(bf, elem) ==
    IF elem >= bf.size THEN buf_resize(bf, ROUNDUPTO(elem, BUF_SIZE_INCREMENT)) ELSE bf

\* With elem still not below the size, the stores of lines 797-805 land
\* behind the array and leave its slots as they are.
buf_char_insert(bf, elem, c, index) ==
    LET b1 == Grown(bf, elem)
        b2 == IF elem >= b1.len THEN [b1 EXCEPT !.len = elem + 1] ELSE b1
    IN IF elem >= b2.size THEN b2
       ELSE IF b2.b[elem] = NULL
       THEN [b2 EXCEPT !.b[elem] = NewRow(c)]
       ELSE [b2 EXCEPT !.b[elem] = str_insertchar(b2.b[elem], c, index, ROW_SIZE_INCREMENT)]

buf_char_remove(bf, elem, index) ==
    IF elem < bf.size /\ bf.b[elem] # NULL
    THEN [bf EXCEPT !.b[elem] = str_removechar(bf.b[elem], index)]
    ELSE bf

buf_elem_len(bf, elem) == IF Slot(bf, elem) # NULL THEN Slot(bf, elem).len ELSE 0

(***************************************************************************)
(* The file writer.  A writer state w: iov the pending segments (iovcnt is *)
(* Len(w.iov)), file the bytes the descriptor has received, calls the      *)
(* number of writev calls made, failed whether one of them failed, maxcnt  *)
(* the largest number of pending segments seen.  failAt is the number of   *)
(* the writev call that fails (0: none does).                              *)
(***************************************************************************)
RECURSIVE Flatten(_)
Flatten(segs) == IF segs = <<>> THEN <<>> ELSE Head(segs) \o Flatten(Tail(segs))

Max(a, b) == IF a > b THEN a ELSE b

\* writev(fd, iov, iovcnt) as call number w.calls + 1.
Writev(w, failAt) ==
    IF w.calls + 1 = failAt
    THEN [w EXCEPT !.calls = w.calls + 1, !.failed = TRUE]
    ELSE [w EXCEPT !.calls = w.calls + 1, !.file = w.file \o Flatten(w.iov)]

\* iov_write flushing the full array without emptying it.
iov_write_noreset(w, iov_size, bytes, failAt) ==
    LET full == Len(w.iov) >= iov_size
        w1 == IF full THEN Writev(w, failAt) ELSE w
    IN IF w1.failed THEN w1
       ELSE [w1 EXCEPT !.iov = Append(w1.iov, bytes),
                       !.maxcnt = Max(w1.maxcnt, Len(w1.iov) + 1)]

iov_write(w, iov_size, bytes, failAt) ==
    LET full == Len(w.iov) >= iov_size
        w1 == IF full THEN Writev(w, failAt) ELSE w
    IN IF w1.failed THEN w1
       ELSE LET iov1 == IF full THEN <<>> ELSE w1.iov
            IN [w1 EXCEPT !.iov = Append(iov1, bytes),
                          !.maxcnt = Max(w1.maxcnt, Len(iov1) + 1)]

\* WriteRow forgetting the newline behind a present row.
WriteRow_nonewline(bf, i, w, failAt) ==
    IF bf.b[i] # NULL
    THEN iov_write(w, IOV_SIZE, Bytes(bf.b[i]), failAt)
    ELSE iov_write(w, IOV_SIZE, <<NEWLINE>>, failAt)

\* One turn of the loop of lines 902-914 for row i.
WriteRow(bf, i, w, failAt) ==
    IF bf.b[i] # NULL
    THEN LET w1 == iov_write(w, IOV_SIZE, Bytes(bf.b[i]), failAt)
         IN IF w1.failed THEN w1 ELSE iov_write(w1, IOV_SIZE, <<NEWLINE>>, failAt)
    ELSE iov_write(w, IOV_SIZE, <<NEWLINE>>, failAt)

\* The loop of lines 902-914 from row i on.  The writer state a turn leaves
\* is bound as a value (w1) before the next turn starts.
RECURSIVE WriteRows(_, _, _, _)
WriteRows(bf, i, w, failAt) ==
    IF i >= bf.len \/ w.failed THEN w
    ELSE CHOOSE r \in {WriteRows(bf, i + 1, w1, failAt) :
                           w1 \in {WriteRow(bf, i, w, failAt)}} : TRUE

\* An I/O outcome: whether open fails for a reason other than the file
\* existing, which writev call fails, whether close fails.
IoOk == [open |-> FALSE, writev |-> 0, close |-> FALSE]
IoOutcomes == {IoOk, [IoOk EXCEPT !.open = TRUE], [IoOk EXCEPT !.writev = 1],
               [IoOk EXCEPT !.close = TRUE]}

\* What buf_write yields: ret and errno as the caller sees them, oflag how
\* the file was opened, files the storage afterwards, fault whether an I/O
\* failure happened, opened whether open yielded a descriptor, closed
\* whether the descriptor was closed (TRUE too when none was opened), maxcnt
\* the largest number of pending segments.
\* NotOpened: open failed with errno (line 900).
NotOpened(overwrite, files, errno) ==
    [ret |-> -1, errno |-> errno, oflag |-> IF overwrite THEN "trunc" ELSE "excl",
     files |-> files, fault |-> errno # "EEXIST", opened |-> FALSE, closed |-> TRUE,
     maxcnt |-> 0]

\* The writer state when the file has just been opened.
Opened == [iov |-> <<>>, file |-> <<>>, calls |-> 0, failed |-> FALSE, maxcnt |-> 0]

\* The final writev of line 915.
Flush(w, failAt) == IF ~w.failed /\ Len(w.iov) # 0 THEN Writev(w, failAt) ELSE w

\* Lines 915-917 seen from the caller, w the writer state after the final writev.
Closing(w, filename, overwrite, io, files) ==
    [ret |-> IF w.failed \/ io.close THEN -1 ELSE 0,
     errno |-> IF w.failed \/ io.close THEN "EIO" ELSE "",
     oflag |-> IF overwrite THEN "trunc" ELSE "excl",
     files |-> [files EXCEPT ![filename] = w.file],
     fault |-> w.failed \/ io.close,
     opened |-> TRUE,
     closed |-> ~w.failed,
     maxcnt |-> w.maxcnt]

buf_write(bf, filename, overwrite, io, files) ==
    IF ~overwrite /\ files[filename] # NoFile THEN NotOpened(overwrite, files, "EEXIST")
    ELSE IF io.open THEN NotOpened(overwrite, files, "EIO")
    ELSE CHOOSE r \in {Closing(w, filename, overwrite, io, files) :
                           w \in {Flush(WriteRows(bf, 0, Opened, io.writev), io.writev)}} : TRUE

(***************************************************************************)
(* Movement.  Each yields the cursor [x, y] the function leaves.           *)
(***************************************************************************)
Cursor(cx, cy) == [x |-> cx, y |-> cy]

cursor_up ==
    IF y > 0
    THEN LET elen == buf_elem_len(buf, y - 1)
         IN Cursor(IF x > elen THEN elen ELSE x, y - 1)
    ELSE Cursor(x, y)

\* cursor_down reserving no row: the bound is one too high.
cursor_down_noreserve ==
    IF y < size[1] - 1
    THEN LET elen == buf_elem_len(buf, y + 1)
         IN Cursor(IF x > elen THEN elen ELSE x, y + 1)
    ELSE Cursor(x, y)

cursor_down ==
    IF y < size[1] - 2
    THEN LET elen == buf_elem_len(buf, y + 1)
         IN Cursor(IF x > elen THEN elen ELSE x, y + 1)
    ELSE Cursor(x, y)

\* cursor_right without the look at the row's length.
cursor_right_nolen ==
    IF x < size[0] - 1 THEN Cursor(x + 1, y) ELSE Cursor(x, y)

cursor_right ==
    IF x < size[0] - 1 /\ x < buf_elem_len(buf, y) THEN Cursor(x + 1, y) ELSE Cursor(x, y)

cursor_left == IF x > 0 THEN Cursor(x - 1, y) ELSE Cursor(x, y)

cursor_start == Cursor(0, y)

cursor_end ==
    LET l == buf_elem_len(buf, y)
    IN Cursor(IF l # 0 THEN l - 1 ELSE l, y)

\* cursor_startnextrow keeping the column.
cursor_startnextrow_keepx == IF y < size[1] - 2 THEN Cursor(x, y + 1) ELSE Cursor(x, y)

cursor_startnextrow == IF y < size[1] - 2 THEN Cursor(0, y + 1) ELSE Cursor(x, y)

cursor_endpreviousrow ==
    IF y > 0 THEN Cursor(buf_elem_len(buf, y - 1), y - 1) ELSE Cursor(x, y)

(***************************************************************************)
(* Commands.  s is the command buffer's cells; s[k + 1] is the C cmd[k].   *)
(***************************************************************************)
\* cmdarg finding no argument in any command.
cmdarg_none(s) == NULLNAME

\* strchr(cmd, ' '), then the text behind the space if there is any.
cmdarg(s) ==
    LET t == CText(s)
    IN IF \E k \in 1 .. Len(t) : t[k] = CH_SPACE
       THEN LET p == CHOOSE k \in 1 .. Len(t) :
                        t[k] = CH_SPACE /\ \A m \in 1 .. (k - 1) : t[m] # CH_SPACE
            IN IF p < Len(t) THEN SubSeq(t, p + 1, Len(t)) ELSE NULLNAME
       ELSE NULLNAME

\* cmdchrcmp without the test of what follows the command.
cmdchrcmp_prefix(s, c) == IF s[1] # c THEN 0 ELSE 1

cmdchrcmp(s, c) ==
    IF s[1] # c THEN 0
    ELSE LET end == IF s[2] = CH_BANG THEN 2 ELSE 1
         IN IF s[end + 1] # NUL /\ s[end + 1] # CH_SPACE THEN 0 ELSE 1

\* strncmp(cmd, t, sl) = 0: the first sl bytes of cmd are those of t.
cmdstrcmp(s, t, sl) ==
    IF Len(CText(s)) < sl \/ SubSeq(s, 1, sl) # t THEN 0
    ELSE LET end == IF s[sl + 1] = CH_BANG THEN sl + 1 ELSE sl
         IN IF s[end + 1] # NUL /\ s[end + 1] # CH_SPACE THEN 0 ELSE -1

\* The test of line 1091 without the look at the bang.
QuitRefused_nobang(s) == modified

\* The test of line 1091: q without a bang on a modified buffer.
QuitRefused(s) == s[2] # CH_BANG /\ modified

\* bang without the case of wq!.
Bang_w(s) == s[2] = CH_BANG

\* bang (lines 1102-1103).
Bang(s) == s[2] = CH_BANG \/ (s[2] = CH_q /\ s[3] = CH_BANG)

\* The overwrite argument always set.
Overwrite_always(s) == TRUE

\* The overwrite argument of buf_write (line 1110).
Overwrite(s) == Bang(s) \/ written

\* WriteFailed clearing modified all the same.
WriteFailed_clears(t, errno) ==
    [t EXCEPT !.ret = -1, !.modified = FALSE,
              !.msg = IF errno = "EEXIST" THEN "file exists (add ! to override)"
                      ELSE "writing to file failed"]

\* What exec_cmd leaves when buf_write failed with errno (lines 1111-1124).
WriteFailed(t, errno) ==
    [t EXCEPT !.ret = -1,
              !.msg = IF errno = "EEXIST" THEN "file exists (add ! to override)"
                      ELSE "writing to file failed"]

\* WriteSucceeded setting done after w as after wq.
WriteSucceeded_quits(t, s) ==
    [t EXCEPT !.modified = FALSE, !.written = TRUE, !.done = TRUE]

\* What exec_cmd leaves when buf_write succeeded (lines 1126-1127, 1133-1134).
WriteSucceeded(t, s) ==
    [t EXCEPT !.modified = FALSE, !.written = TRUE,
              !.done = IF s[2] = CH_q THEN TRUE ELSE t.done]

\* What exec_cmd yields: its return value, the message it prints, how it
\* opened the target, and the fields of the state and the storage it
\* leaves.  Same: nothing done yet.
Same ==
    [ret |-> 0, msg |-> "", oflag |-> "none", name |-> name,
     name_needs_free |-> name_needs_free, modified |-> modified,
     written |-> written, done |-> done, files |-> fs,
     fault |-> FALSE, opened |-> FALSE, closed |-> TRUE, maxcnt |-> 0]

\* Lines 1105-1108: the argument becomes the name if there is none.
Named(arg) ==
    IF arg # NULLNAME /\ name = NULLNAME
    THEN [Same EXCEPT !.name = arg, !.name_needs_free = TRUE]
    ELSE Same

\* t with what buf_write's result r did to the storage.
Tried(t, r) ==
    [t EXCEPT !.oflag = r.oflag, !.files = r.files, !.fault = r.fault,
              !.opened = r.opened, !.closed = r.closed, !.maxcnt = r.maxcnt]

\* Lines 1109-1127, r the result of buf_write.
Wrote(s, t, r) ==
    IF r.ret < 0 THEN WriteFailed(Tried(t, r), r.errno)
    ELSE WriteSucceeded(Tried(t, r), s)

\* Lines 1100-1134: the w and wq commands, arg the command's argument.
exec_write(s, arg, io) ==
    IF arg # NULLNAME \/ name # NULLNAME
    THEN Wrote(s, Named(arg),
               buf_write(buf, IF arg # NULLNAME THEN arg ELSE name, Overwrite(s), io, fs))
    ELSE [Named(arg) EXCEPT !.ret = -1, !.msg = "no file name specified"]

exec_cmd(io) ==
    IF cmdchrcmp(cmd.s, CH_q) # 0
    THEN IF QuitRefused(cmd.s)
         THEN [Same EXCEPT !.ret = -1, !.msg = "buffer modified"]
         ELSE [Same EXCEPT !.done = TRUE]
    ELSE IF cmdchrcmp(cmd.s, CH_w) # 0 \/ cmdstrcmp(cmd.s, <<CH_w, CH_q>>, 2) # 0
    THEN exec_write(cmd.s, cmdarg(cmd.s), io)
    ELSE Same

\* The file a w or wq command in the command buffer names (lines 1100-1101),
\* NULLNAME if the buffer holds another command or no name is known.
Target ==
    IF cmdchrcmp(cmd.s, CH_q) = 0
       /\ (cmdchrcmp(cmd.s, CH_w) # 0 \/ cmdstrcmp(cmd.s, <<CH_w, CH_q>>, 2) # 0)
    THEN IF cmdarg(cmd.s) # NULLNAME THEN cmdarg(cmd.s) ELSE name
    ELSE NULLNAME

(***************************************************************************)
(* The main loop.  A key event e is [key, ch].                             *)
(***************************************************************************)
SpecialKeys == {"KEY_ESC", "KEY_ARROW_UP", "KEY_ARROW_DOWN", "KEY_ARROW_RIGHT",
                "KEY_ARROW_LEFT", "KEY_ENTER", "KEY_BACKSPACE", "KEY_DELETE"}
Key(k) == [key |-> k, ch |-> NUL]
\* ev before any event, and ev after a resize event.
NoEvent == Key("NONE")
ResizeEvent == Key("RESIZE")
Char(c) == [key |-> "KEY_CHAR", ch |-> c]
KeyEvents(chars) == {Key(k) : k \in SpecialKeys} \cup {Char(c) : c \in chars}

\* out when the latest event ran no command.  maxcnt is the largest number
\* of pending segments the write had; fault, opened and closed are those of
\* buf_write.
NoOut == [ran |-> FALSE, ret |-> 0, msg |-> "", oflag |-> "none", maxcnt |-> 0,
          fault |-> FALSE, opened |-> FALSE, closed |-> TRUE]

\* Scenario A of the specification.
ScenarioA == <<Char(CH_i), Char(CH_h), Char(CH_i), Key("KEY_ESC"), Char(CH_COLON),
               Char(CH_w), Char(CH_q), Key("KEY_ENTER")>>

\* The events so far are the first scn events of ScenarioA, each write
\* meeting no I/O failure; -1 once they are not.
Track(e, io) ==
    /\ scn' = IF scn >= 0 /\ scn < Len(ScenarioA) /\ e = ScenarioA[scn + 1] /\ io = IoOk
              THEN scn + 1 ELSE -1
    /\ ev' = IF env.record THEN e ELSE NoEvent
    /\ UNCHANGED TermVars

SetCursor(c) == x' = c.x /\ y' = c.y

\* The command buffer left as it is.
CmdKept == cmd

\* The command buffer after cmd.s[0] = '\0', cmd.len = 0.
CmdCleared == [cmd EXCEPT !.s = <<NUL>>, !.len = 0]

\* An event that runs no command.
NoCommand == UNCHANGED <<name, name_needs_free, written, done, fs, saved,
                         wrote, env>> /\ out' = NoOut

\* The KEY_ENTER case (lines 1169-1178), r what exec_cmd yields under the
\* I/O outcome io.
Entered(r, io) ==
    /\ Target \in Paths \cup {NULLNAME}
    /\ io # IoOk => r.fault
    /\ name' = r.name
    /\ name_needs_free' = r.name_needs_free
    /\ modified' = r.modified
    /\ written' = r.written
    /\ done' = r.done
    /\ fs' = r.files
    /\ out' = [ran |-> TRUE, ret |-> r.ret, msg |-> r.msg, oflag |-> r.oflag,
                maxcnt |-> r.maxcnt, fault |-> r.fault, opened |-> r.opened,
                closed |-> r.closed]
    /\ saved' = IF r.oflag # "none" /\ r.ret = 0 THEN buf ELSE saved
    /\ wrote' = (wrote \/ (r.oflag # "none" /\ r.ret = 0))
    /\ mode' = "MODE_NORMAL"
    /\ cmd' = CmdCleared
    /\ x' = storedx

key_command_line(e, io) ==
    /\ UNCHANGED <<buf, size, y, storedx, resized, env>>
    /\ Track(e, io)
    /\ IF e.key = "KEY_ENTER"
       THEN Entered(exec_cmd(io), io)
       ELSE /\ io = IoOk
            /\ NoCommand
            /\ UNCHANGED modified
            /\ CASE e.key = "KEY_ESC" ->
                      mode' = "MODE_NORMAL" /\ cmd' = CmdCleared /\ x' = storedx
                 [] e.key = "KEY_ARROW_RIGHT" ->
                      /\ x' = IF x < size[0] - 1 /\ SizeT(x - 1) < cmd.len THEN x + 1 ELSE x
                      /\ UNCHANGED <<mode, cmd>>
                 [] e.key = "KEY_ARROW_LEFT" ->
                      x' = (IF x > 1 THEN x - 1 ELSE x) /\ UNCHANGED <<mode, cmd>>
                 [] e.key = "KEY_BACKSPACE" ->
                      IF x > 1 /\ cmd.len # 0
                      THEN /\ cmd' \in Expose(str_removechar(cmd, SizeT(x - 2)))
                           /\ x' = x - 1
                           /\ UNCHANGED mode
                      ELSE UNCHANGED <<mode, cmd, x>>
                 [] e.key = "KEY_DELETE" ->
                      IF cmd.len # 0
                      THEN /\ cmd' \in Expose(str_removechar(cmd, SizeT(x - 1)))
                           /\ UNCHANGED <<mode, x>>
                      ELSE UNCHANGED <<mode, cmd, x>>
                 [] e.key = "KEY_CHAR" ->
                      IF x > 0 /\ x < size[0] - 1
                      THEN /\ Bytes(str_insertchar(cmd, e.ch, SizeT(x - 1),
                                                   CMD_SIZE_INCREMENT)) \in env.cmdtexts
                           /\ cmd' \in Expose(str_insertchar(cmd, e.ch, SizeT(x - 1),
                                                            CMD_SIZE_INCREMENT))
                           /\ x' = x + 1
                           /\ UNCHANGED mode
                      ELSE UNCHANGED <<mode, cmd, x>>
                 [] OTHER -> UNCHANGED <<mode, cmd, x>>

\* The buffer after the row the cursor is on was printed (term_print reads
\* the row's text).
Printed(bf) ==
    IF y < bf.size THEN {[bf EXCEPT !.b[y] = r] : r \in Expose(bf.b[y])} ELSE {bf}

key_insert(e) ==
    /\ UNCHANGED <<cmd, size, storedx, resized>>
    /\ Track(e, IoOk)
    /\ NoCommand
    /\ CASE e.key = "KEY_ESC" ->
              mode' = "MODE_NORMAL" /\ UNCHANGED <<buf, x, y, modified>>
         [] e.key = "KEY_ARROW_UP" ->
              SetCursor(cursor_up) /\ UNCHANGED <<buf, mode, modified>>
         [] e.key = "KEY_ARROW_DOWN" ->
              SetCursor(cursor_down) /\ UNCHANGED <<buf, mode, modified>>
         [] e.key = "KEY_ARROW_RIGHT" ->
              SetCursor(cursor_right) /\ UNCHANGED <<buf, mode, modified>>
         [] e.key = "KEY_ARROW_LEFT" ->
              SetCursor(cursor_left) /\ UNCHANGED <<buf, mode, modified>>
         [] e.key = "KEY_ENTER" ->
              SetCursor(cursor_startnextrow) /\ UNCHANGED <<buf, mode, modified>>
         [] e.key = "KEY_BACKSPACE" ->
              IF x > 0 /\ Slot(buf, y) # NULL /\ Slot(buf, y).len # 0
              THEN /\ modified' = TRUE
                   /\ buf' \in Printed(buf_char_remove(buf, y, x - 1))
                   /\ x' = x - 1
                   /\ UNCHANGED <<y, mode>>
              ELSE UNCHANGED <<buf, x, y, mode, modified>>
         [] e.key = "KEY_DELETE" ->
              IF Slot(buf, y) # NULL /\ Slot(buf, y).len # 0
              THEN /\ modified' = TRUE
                   /\ buf' \in Printed(buf_char_remove(buf, y, x))
                   /\ UNCHANGED <<x, y, mode>>
              ELSE UNCHANGED <<buf, x, y, mode, modified>>
         [] e.key = "KEY_CHAR" ->
              IF x < size[0] - 1
              THEN /\ Bytes(Slot(buf_char_insert(buf, y, e.ch, x), y)) \in env.rowtexts
                   /\ modified' = TRUE
                   /\ buf' \in Printed(buf_char_insert(buf, y, e.ch, x))
                   /\ x' = x + 1
                   /\ UNCHANGED <<y, mode>>
              ELSE UNCHANGED <<buf, x, y, mode, modified>>

key_normal(e) ==
    /\ UNCHANGED <<buf, cmd, size, modified, resized>>
    /\ Track(e, IoOk)
    /\ NoCommand
    /\ CASE e.key = "KEY_ARROW_UP" -> SetCursor(cursor_up) /\ UNCHANGED <<mode, storedx>>
         [] e.key = "KEY_ARROW_DOWN" -> SetCursor(cursor_down) /\ UNCHANGED <<mode, storedx>>
         [] e.key = "KEY_ARROW_RIGHT" -> SetCursor(cursor_right) /\ UNCHANGED <<mode, storedx>>
         [] e.key = "KEY_ARROW_LEFT" -> SetCursor(cursor_left) /\ UNCHANGED <<mode, storedx>>
         [] e.key = "KEY_ENTER" ->
              SetCursor(cursor_startnextrow) /\ UNCHANGED <<mode, storedx>>
         [] e.key = "KEY_BACKSPACE" ->
              /\ SetCursor(IF x = 0 /\ y > 0 THEN cursor_endpreviousrow ELSE cursor_left)
              /\ UNCHANGED <<mode, storedx>>
         [] e.key = "KEY_CHAR" /\ e.ch = CH_h ->
              SetCursor(cursor_left) /\ UNCHANGED <<mode, storedx>>
         [] e.key = "KEY_CHAR" /\ e.ch = CH_j ->
              SetCursor(cursor_down) /\ UNCHANGED <<mode, storedx>>
         [] e.key = "KEY_CHAR" /\ e.ch = CH_k ->
              SetCursor(cursor_up) /\ UNCHANGED <<mode, storedx>>
         [] e.key = "KEY_CHAR" /\ e.ch = CH_l ->
              SetCursor(cursor_right) /\ UNCHANGED <<mode, storedx>>
         [] e.key = "KEY_CHAR" /\ e.ch = CH_ZERO ->
              SetCursor(cursor_start) /\ UNCHANGED <<mode, storedx>>
         [] e.key = "KEY_CHAR" /\ e.ch = CH_DOLLAR ->
              SetCursor(cursor_end) /\ UNCHANGED <<mode, storedx>>
         [] e.key = "KEY_CHAR" /\ e.ch = CH_i ->
              mode' = "MODE_INSERT" /\ UNCHANGED <<x, y, storedx>>
         [] e.key = "KEY_CHAR" /\ e.ch = CH_a ->
              SetCursor(cursor_right) /\ mode' = "MODE_INSERT" /\ UNCHANGED storedx
         [] e.key = "KEY_CHAR" /\ e.ch = CH_COLON ->
              /\ mode' = "MODE_COMMAND_LINE"
              /\ storedx' = x
              /\ x' = 1
              /\ UNCHANGED y
         [] OTHER -> UNCHANGED <<x, y, mode, storedx>>

\* A resize that also leaves the mode the loop is in.
Resize_normal(sz) ==
    /\ size' = sz
    /\ x' = IF x >= sz[0] - 1 THEN sz[0] - 1 ELSE x
    /\ y' = IF y >= sz[1] - 1 THEN sz[1] - 1 ELSE y
    /\ scn' = -1
    /\ ev' = IF env.record THEN ResizeEvent ELSE NoEvent
    /\ UNCHANGED TermVars
    /\ resized' = TRUE
    /\ NoCommand
    /\ mode' = "MODE_NORMAL"
    /\ UNCHANGED <<buf, cmd, storedx, modified>>

\* The TERM_EVENT_RESIZE case of run, term_size yielding sz.
Resize(sz) ==
    /\ size' = sz
    /\ x' = IF x >= sz[0] - 1 THEN sz[0] - 1 ELSE x
    /\ y' = IF y >= sz[1] - 1 THEN sz[1] - 1 ELSE y
    /\ scn' = -1
    /\ ev' = IF env.record THEN ResizeEvent ELSE NoEvent
    /\ UNCHANGED TermVars
    /\ resized' = TRUE
    /\ NoCommand
    /\ UNCHANGED <<buf, cmd, mode, storedx, modified>>

\* Editing: two window sizes, one letter typed into the rows, the commands
\* that need no file.
EditEnv ==
    [sizes |-> {WinSize(2, 2), WinSize(MaxWidth, MaxHeight)},
     rowtexts |-> TextsUpTo({CH_h}, MaxRowLen),
     cmdtexts |-> {<<CH_q>>, <<CH_BANG>>, <<CH_q, CH_BANG>>},
     names |-> {NULLNAME},
     files |-> {Files(NoFile, NoFile)},
     faults |-> {IoOk},
     record |-> FALSE]

\* Commands: one window size, one row holding "h", the commands on one
\* file, every I/O failure.
CmdEnv ==
    [sizes |-> {WinSize(MaxWidth + 1, 2)},
     rowtexts |-> {<<CH_h>>},
     cmdtexts |-> {<<CH_q>>, <<CH_q, CH_BANG>>, <<CH_w>>, <<CH_w, CH_BANG>>,
                   <<CH_w, CH_q>>, <<CH_BANG>>, <<CH_w, CH_q, CH_BANG>>,
                   NameG, <<CH_q, CH_q>>},
     names |-> {NULLNAME, NameF},
     files |-> {Files(NoFile, NoFile)},
     faults |-> IoOutcomes,
     record |-> FALSE]

\* Scenario A: one window size, one row holding "h" or "hi", the commands
\* w and wq on the file named at startup, open failing or not.
ScnEnv ==
    [sizes |-> {WinSize(MaxWidth + 1, 2)},
     rowtexts |-> {<<CH_h>>, <<CH_h, CH_i>>},
     cmdtexts |-> {<<CH_w>>, <<CH_w, CH_q>>},
     names |-> {NameF},
     files |-> {Files(NoFile, NoFile)},
     faults |-> {IoOk, [IoOk EXCEPT !.open = TRUE]},
     record |-> FALSE]

\* Arguments: one window size, nothing typed into the rows, the w command
\* with and without an argument, a second file that exists at startup.
ArgEnv ==
    [sizes |-> {WinSize(MaxWidth + 2, 2)},
     rowtexts |-> {},
     cmdtexts |-> {<<CH_w>>, <<CH_w, CH_BANG>>, <<CH_w, CH_SPACE>>,
                   <<CH_w, CH_SPACE>> \o NameG},
     names |-> {NULLNAME, NameF},
     files |-> {Files(NoFile, OldContent)},
     faults |-> {IoOk},
     record |-> FALSE]

\* Keys: the sizes of EditEnv, one letter typed into the rows and one into
\* the command buffer, the latest event recorded.
KeyEnv ==
    [sizes |-> {WinSize(2, 2), WinSize(MaxWidth, MaxHeight)},
     rowtexts |-> TextsUpTo({CH_h}, MaxRowLen - 1),
     cmdtexts |-> TextsUpTo({CH_q}, MaxCmdLen),
     names |-> {NULLNAME},
     files |-> {Files(NoFile, NoFile)},
     faults |-> {IoOk},
     record |-> TRUE]

\* The terminal layer when term_init has returned and the loop waits for
\* its first event.
TermReady ==
    /\ pc = "wait"
    /\ key_c = -1
    /\ stdin = <<>>
    /\ esc = <<>>
    /\ arrived = 0
    /\ handler = TRUE
    /\ sigmask = TRUE
    /\ pending = FALSE
    /\ win_resized = 0
    /\ intr = FALSE
    /\ notified = 0
    /\ tattr = "raw"
    /\ term_initialized = 1

\* The characters typed in a mode: those of its texts.
AllChars(texts) == UNION {{t[k] : k \in 1 .. Len(t)} : t \in texts}
NormalChars == {CH_h, CH_j, CH_k, CH_l, CH_ZERO, CH_DOLLAR, CH_i, CH_a, CH_COLON, CH_q}

\* The state run sets up before the main loop, in the environment e.
InitState(e) ==
    /\ env = e
    /\ buf = buf_create(INITIAL_BUFFER_ROWS)
    /\ cmd = [s |-> <<NUL>>, len |-> 0, size |-> INITIAL_ROW_SIZE,
              alloc |-> INITIAL_CMD_SIZE]
    /\ x = 0
    /\ y = 0
    /\ mode = "MODE_NORMAL"
    /\ storedx = 0
    /\ name \in e.names
    /\ name_needs_free = FALSE
    /\ modified = FALSE
    /\ written = FALSE
    /\ done = FALSE
    /\ size \in e.sizes
    /\ fs \in e.files
    /\ out = NoOut
    /\ saved = buf
    /\ wrote = FALSE
    /\ scn = IF name # NULLNAME /\ fs[name] = NoFile THEN 0 ELSE -1
    /\ resized = FALSE
    /\ ev = NoEvent

\* run, up to the main loop, in the environment e, term_init having returned.
InitEnv(e) == InitState(e) /\ TermReady

\* One turn of the main loop: term_event_wait, then the handler of the mode.
KeyCommandLine ==
    /\ ~done /\ pc = "wait" /\ mode = "MODE_COMMAND_LINE"
    /\ \E e \in KeyEvents(AllChars(env.cmdtexts)), io \in env.faults :
           key_command_line(e, io)

KeyInsert ==
    /\ ~done /\ pc = "wait" /\ mode = "MODE_INSERT"
    /\ \E e \in KeyEvents(AllChars(env.rowtexts)) : key_insert(e)

KeyNormal ==
    /\ ~done /\ pc = "wait" /\ mode = "MODE_NORMAL"
    /\ \E e \in KeyEvents(NormalChars) : key_normal(e)

WinResize == ~done /\ pc = "wait" /\ \E sz \in env.sizes : Resize(sz)

Next == KeyCommandLine \/ KeyInsert \/ KeyNormal \/ WinResize

Init == InitEnv(EditEnv)
Spec == Init /\ [][Next]_vars

InitCmd == InitEnv(CmdEnv)
SpecCmd == InitCmd /\ [][Next]_vars

InitScn == InitEnv(ScnEnv)
SpecScn == InitScn /\ [][Next]_vars

InitArg == InitEnv(ArgEnv)
SpecArg == InitArg /\ [][Next]_vars

InitKeys == InitEnv(KeyEnv)
SpecKeys == InitKeys /\ [][Next]_vars

(***************************************************************************)
(* The file writer on larger documents.  A document of n rows is built as  *)
(* a session builds it, with buf_char_insert and buf_char_remove, from the *)
(* last row down; k picks which rows are absent, emptied or filled.        *)
(***************************************************************************)
Layouts == 0 .. 2

\* What row i of layout k is: "absent", "emptied" (filled, then every byte
\* removed) or "filled".
RowKind(i, k) ==
    IF k = 0 THEN "filled"
    ELSE IF k = 1 THEN (IF i % 3 = 1 THEN "absent" ELSE IF i % 3 = 2 THEN "emptied" ELSE "filled")
    ELSE (IF i % 5 = 0 THEN "filled" ELSE "absent")

\* The text typed into row i: it differs between neighbouring rows.
RowText(i) == IF i % 2 = 0 THEN <<CH_h>> ELSE <<CH_i, CH_h>>

\* bf after the bytes of text from position k on were typed at the end of row elem.
RECURSIVE TypeRow(_, _, _, _)
TypeRow(bf, elem, text, k) ==
    IF k > Len(text) THEN bf
    ELSE TypeRow(buf_char_insert(bf, elem, text[k], k - 1), elem, text, k + 1)

\* bf after the first bytes of row elem were removed until none is left.
RECURSIVE EmptyRow(_, _)
EmptyRow(bf, elem) ==
    IF buf_elem_len(bf, elem) = 0 THEN bf
    ELSE EmptyRow(buf_char_remove(bf, elem, 0), elem)

\* bf after rows i, i - 1 .. 0 of layout k were built; the row built first
\* (the document's last) is always filled.
BuildRow(bf, i, k) ==
    LET kind == IF bf.len = 0 THEN "filled" ELSE RowKind(i, k)
        typed == TypeRow(bf, i, RowText(i), 1)
    IN IF kind = "absent" THEN bf
       ELSE IF kind = "emptied" THEN EmptyRow(typed, i)
       ELSE typed

RECURSIVE BuildRows(_, _, _)
BuildRows(bf, i, k) ==
    IF i < 0 THEN bf
    ELSE CHOOSE r \in {BuildRows(b1, i - 1, k) : b1 \in {BuildRow(bf, i, k)}} : TRUE

Doc(n, k) == BuildRows(buf_create(INITIAL_BUFFER_ROWS), n - 1, k)

\* The lengths whose last row buf_char_insert can address: the row is below
\* the capacity, or the capacity it asks for is above the row.
DocLens ==
    {n \in 0 .. MaxRows :
        n = 0 \/ n - 1 < INITIAL_BUFFER_ROWS \/ ROUNDUPTO(n - 1, BUF_SIZE_INCREMENT) > n - 1}

WriterEnv ==
    [sizes |-> {WinSize(MaxWidth, MaxRows + 2)},
     rowtexts |-> {RowText(0), RowText(1)},
     cmdtexts |-> {<<CH_w>>},
     names |-> {NameF},
     files |-> {Files(NoFile, NoFile)},
     faults |-> IoOutcomes,
     record |-> FALSE]

\* A session whose document is Doc(n, k), unsaved.
InitWriter ==
    /\ env = WriterEnv
    /\ \E n \in DocLens, k \in Layouts : buf = Doc(n, k)
    /\ cmd = [s |-> <<NUL>>, len |-> 0, size |-> INITIAL_ROW_SIZE,
              alloc |-> INITIAL_CMD_SIZE]
    /\ x = 0
    /\ y = 0
    /\ mode = "MODE_NORMAL"
    /\ storedx = 0
    /\ name \in env.names
    /\ name_needs_free = FALSE
    /\ modified = (buf.len # 0)
    /\ written = FALSE
    /\ done = FALSE
    /\ size \in env.sizes
    /\ fs \in env.files
    /\ out = NoOut
    /\ saved = buf_create(INITIAL_BUFFER_ROWS)
    /\ wrote = FALSE
    /\ scn = -1
    /\ resized = FALSE
    /\ ev = NoEvent
    /\ TermReady

\* The step that leaves r, what buf_write yields under the I/O outcome io.
Returned(r, io) ==
    /\ io # IoOk => r.fault
    /\ fs' = r.files
    /\ out' = [ran |-> TRUE, ret |-> r.ret, msg |-> r.errno, oflag |-> r.oflag,
                maxcnt |-> r.maxcnt, fault |-> r.fault, opened |-> r.opened,
                closed |-> r.closed]
    /\ UNCHANGED <<buf, cmd, size, x, y, mode, storedx, name, name_needs_free,
                   modified, written, done, saved, wrote, scn, resized, ev, env,
                   TermVars>>

\* buf_write(&st->buf, st->name, overwrite), as exec_cmd calls it.
BufWrite ==
    \E overwrite \in BOOLEAN, io \in env.faults :
        Returned(buf_write(buf, name, overwrite, io, fs), io)

NextWriter == BufWrite
SpecWriter == InitWriter /\ [][NextWriter]_vars

(***************************************************************************)
(* The terminal layer: the wait of term_event_wait and the decoder         *)
(* readkey, one step per read.  Bytes arrive on stdin at any time.         *)
(***************************************************************************)
\* Decoding: bytes of every kind arrive, char is signed or not, the latest
\* event is recorded.
DecodeEnv(sg) ==
    [sizes |-> {WinSize(MaxWidth, MaxHeight)},
     rowtexts |-> {<<CH_h>>},
     cmdtexts |-> {<<CH_q>>},
     names |-> {NULLNAME},
     files |-> {Files(NoFile, NoFile)},
     faults |-> {IoOk},
     record |-> TRUE,
     bytes |-> {ESC, CH_LBRACKET, CH_3, CH_TILDE, CH_A, CH_h, DEL, HIGH_BYTE},
     signed |-> sg]

\* A byte arrives on stdin.
Arrive ==
    /\ arrived < MaxInput
    /\ pc \in {"wait", "read", "esc", "bracket", "three", "key", "size"}
    /\ \E b \in env.bytes : stdin' = Append(stdin, b)
    /\ arrived' = arrived + 1
    /\ UNCHANGED <<EditorVars, ev, env, pc, key_c, esc, SigVars, TtyVars>>

\* The value of a char holding the byte b.
CharOf(b) == IF env.signed /\ b >= HIGH_BYTE THEN b - 2 * HIGH_BYTE ELSE b

\* readkey returns with the event e.
Emit(e) == pc' = "key" /\ ev' = e

\* The rv < 0 case treating every interruption as an error.
Interrupted_dies == pc' = "die" /\ UNCHANGED <<win_resized, ev>>

\* The rv < 0 case of lines 485-493, errno being EINTR.
Interrupted ==
    IF win_resized # 0
    THEN win_resized' = 0 /\ ev' = ResizeEvent /\ pc' = "size"
    ELSE pc' = "die" /\ UNCHANGED <<win_resized, ev>>

\* pselect returns (lines 484-504): interrupted by winch, or with data on
\* stdin.
Pselect ==
    /\ pc = "wait"
    /\ IF intr
       THEN /\ intr' = FALSE
            /\ Interrupted
            /\ UNCHANGED <<key_c, esc>>
       ELSE /\ stdin # <<>>
            /\ pc' = "read"
            /\ key_c' = -1
            /\ esc' = <<>>
            /\ UNCHANGED <<intr, win_resized, ev>>
    /\ UNCHANGED <<EditorVars, env, stdin, arrived, handler, sigmask, pending,
                   notified, TtyVars>>

\* The read of line 399, whose result readkey does not look at, and the
\* switch on c behind it, but for the <ESC> case's reads.
ReadKey ==
    /\ pc = "read"
    /\ LET ok == stdin # <<>>
           b == IF ok THEN Head(stdin) ELSE key_c
       IN /\ key_c' = b
          /\ stdin' = IF ok THEN Tail(stdin) ELSE stdin
          /\ esc' = IF ok THEN (IF b = ESC THEN <<ESC>> ELSE <<>>) ELSE esc
          /\ IF CharOf(b) = ESC THEN pc' = "esc" /\ UNCHANGED ev
             ELSE IF CharOf(b) = CR THEN Emit(Key("KEY_ENTER"))
             ELSE IF CharOf(b) = DEL THEN Emit(Key("KEY_BACKSPACE"))
             ELSE IF CharOf(b) < ASCII_END THEN Emit(Char(CharOf(b)))
             ELSE pc' = "read" /\ UNCHANGED ev
    /\ UNCHANGED <<EditorVars, env, arrived, SigVars, TtyVars>>

\* try_read_chr(&c) of line 406: the byte behind <ESC>, if there is one.
ReadKeyEsc ==
    /\ pc = "esc"
    /\ IF stdin = <<>>
       THEN Emit(Key("KEY_ESC")) /\ UNCHANGED <<key_c, stdin, esc>>
       ELSE /\ key_c' = Head(stdin)
            /\ stdin' = Tail(stdin)
            /\ esc' = Append(esc, Head(stdin))
            /\ pc' = IF CharOf(Head(stdin)) = CH_LBRACKET THEN "bracket" ELSE "read"
            /\ UNCHANGED ev
    /\ UNCHANGED <<EditorVars, env, arrived, SigVars, TtyVars>>

\* try_read_chr(&c) of line 408 and the switch of lines 410-435.
ReadKeyBracket ==
    /\ pc = "bracket"
    /\ IF stdin = <<>>
       THEN pc' = "read" /\ UNCHANGED <<key_c, stdin, esc, ev>>
       ELSE /\ key_c' = Head(stdin)
            /\ stdin' = Tail(stdin)
            /\ esc' = Append(esc, Head(stdin))
            /\ CASE CharOf(Head(stdin)) = CH_3 -> pc' = "three" /\ UNCHANGED ev
                 [] CharOf(Head(stdin)) = CH_A -> Emit(Key("KEY_ARROW_UP"))
                 [] CharOf(Head(stdin)) = CH_B -> Emit(Key("KEY_ARROW_DOWN"))
                 [] CharOf(Head(stdin)) = CH_C -> Emit(Key("KEY_ARROW_RIGHT"))
                 [] CharOf(Head(stdin)) = CH_D -> Emit(Key("KEY_ARROW_LEFT"))
                 [] OTHER -> pc' = "read" /\ UNCHANGED ev
    /\ UNCHANGED <<EditorVars, env, arrived, SigVars, TtyVars>>

\* try_read_chr(&c) of line 413 and the test for '~'.
ReadKeyThree ==
    /\ pc = "three"
    /\ IF stdin = <<>>
       THEN pc' = "read" /\ UNCHANGED <<key_c, stdin, esc, ev>>
       ELSE /\ key_c' = Head(stdin)
            /\ stdin' = Tail(stdin)
            /\ esc' = Append(esc, Head(stdin))
            /\ IF CharOf(Head(stdin)) = CH_TILDE
               THEN Emit(Key("KEY_DELETE"))
               ELSE pc' = "read" /\ UNCHANGED ev
    /\ UNCHANGED <<EditorVars, env, arrived, SigVars, TtyVars>>

\* The TERM_EVENT_KEY case of run: the handler of the mode (not followed
\* here), then the next turn of the loop.
HandleKey ==
    /\ pc = "key"
    /\ pc' = "wait"
    /\ UNCHANGED <<EditorVars, ev, env, key_c, stdin, esc, arrived, SigVars, TtyVars>>

\* The TERM_EVENT_RESIZE case of run (the size probe is not followed here),
\* then the next turn of the loop.
HandleResize ==
    /\ pc = "size"
    /\ pc' = "wait"
    /\ UNCHANGED <<EditorVars, ev, env, key_c, stdin, esc, arrived, SigVars, TtyVars>>

\* The terminal's size changes: the kernel sends SIGWINCH, which stays
\* pending until it can be delivered (several of them as one), or is
\* dropped while no handler is installed (the default action).
Notify ==
    /\ notified < MaxNotify
    /\ pc \in {"wait", "read", "esc", "bracket", "three", "key", "size"}
    /\ notified' = notified + 1
    /\ pending' = (handler \/ pending)
    /\ UNCHANGED <<EditorVars, ev, env, KeyVars, handler, sigmask, win_resized, intr,
                   TtyVars>>

\* Whether SIGWINCH is in oldmask, the mask pselect installs for the wait:
\* the process is started with the signal unblocked.
oldmask == FALSE

\* SIGWINCH can be delivered: it is not in the signal mask in force.
Deliverable == IF pc = "wait" THEN ~oldmask ELSE ~sigmask

\* The pending SIGWINCH is delivered: winch runs (lines 710-717), and a
\* pselect in progress is interrupted.
Winch ==
    /\ pending /\ handler /\ Deliverable
    /\ pending' = FALSE
    /\ win_resized' = 1
    /\ intr' = (pc = "wait")
    /\ UNCHANGED <<EditorVars, ev, env, KeyVars, handler, sigmask, notified, TtyVars>>

NextDecode ==
    Arrive \/ Pselect \/ ReadKey \/ ReadKeyEsc \/ ReadKeyBracket \/ ReadKeyThree
      \/ HandleKey

InitDecode == \E sg \in BOOLEAN : InitEnv(DecodeEnv(sg))
SpecDecode == InitDecode /\ [][NextDecode]_vars

\* Signals: ASCII input only, resize notifications at any time.
SigEnv == [DecodeEnv(TRUE) EXCEPT !.bytes = {ESC, CH_LBRACKET, CH_3, CH_h}]

NextSig == NextDecode \/ HandleResize \/ Notify \/ Winch

\* The steps of the process happen if they can: it is never stopped for
\* good, and a deliverable signal is delivered.
InitSig == InitEnv(SigEnv)
SpecSig ==
    /\ InitSig /\ [][NextSig]_vars
    /\ WF_vars(Pselect) /\ WF_vars(ReadKey) /\ WF_vars(ReadKeyEsc)
    /\ WF_vars(ReadKeyBracket) /\ WF_vars(ReadKeyThree)
    /\ WF_vars(HandleKey) /\ WF_vars(HandleResize) /\ WF_vars(Winch)

(***************************************************************************)
(* The start and the fatal end of the process: term_init one call at a     *)
(* time, each of which can fail, then the loop, and die.                   *)
(***************************************************************************)
\* The terminal layer when main calls term_init: the terminal is in the mode
\* the shell left it in, no handler is installed, SIGWINCH is not blocked.
TermBoot ==
    /\ pc = "isatty"
    /\ key_c = -1
    /\ stdin = <<>>
    /\ esc = <<>>
    /\ arrived = 0
    /\ handler = FALSE
    /\ sigmask = oldmask
    /\ pending = FALSE
    /\ win_resized = 0
    /\ intr = FALSE
    /\ notified = 0
    /\ tattr = "cooked"
    /\ term_initialized = 0

\* The attributes tcgetattr saves in oldtio: those the process starts with.
oldtio == "cooked"

\* The calls of term_init, in their order.
BootSteps ==
    {"isatty", "tcgetattr", "tcsetattr", "F_GETFL", "F_SETFL", "sigaction",
     "sigprocmask"}

\* One call of term_init: it fails and term_init calls die, or it succeeds
\* and has its effect.  term_initialized is set when the last has succeeded.
TermInit ==
    /\ pc \in BootSteps
    /\ \E ok \in BOOLEAN :
          IF ~ok
          THEN pc' = "die" /\ UNCHANGED <<tattr, handler, sigmask, term_initialized>>
          ELSE CASE pc = "isatty" ->
                      /\ pc' = "tcgetattr"
                      /\ UNCHANGED <<tattr, handler, sigmask, term_initialized>>
                 [] pc = "tcgetattr" ->
                      /\ pc' = "tcsetattr"
                      /\ UNCHANGED <<tattr, handler, sigmask, term_initialized>>
                 [] pc = "tcsetattr" ->
                      /\ pc' = "F_GETFL"
                      /\ tattr' = "raw"
                      /\ UNCHANGED <<handler, sigmask, term_initialized>>
                 [] pc = "F_GETFL" ->
                      /\ pc' = "F_SETFL"
                      /\ UNCHANGED <<tattr, handler, sigmask, term_initialized>>
                 [] pc = "F_SETFL" ->
                      /\ pc' = "sigaction"
                      /\ UNCHANGED <<tattr, handler, sigmask, term_initialized>>
                 [] pc = "sigaction" ->
                      /\ pc' = "sigprocmask"
                      /\ handler' = TRUE
                      /\ UNCHANGED <<tattr, sigmask, term_initialized>>
                 [] pc = "sigprocmask" ->
                      /\ pc' = "run"
                      /\ sigmask' = TRUE
                      /\ term_initialized' = 1
                      /\ UNCHANGED <<tattr, handler>>
    /\ UNCHANGED <<EditorVars, ev, env, key_c, stdin, esc, arrived, pending,
                   win_resized, intr, notified>>

\* run before its loop (lines 1371-1397): the allocations of the document
\* and of the command buffer fail, or the window is too low, and run calls
\* die; or the loop starts.
RunStart ==
    /\ pc = "run"
    /\ \E ok \in BOOLEAN : pc' = IF ok THEN "wait" ELSE "die"
    /\ UNCHANGED <<EditorVars, ev, env, key_c, stdin, esc, arrived, SigVars,
                   TtyVars>>

\* An allocation of the key's handler fails (emalloc, erealloc): die.
OutOfMemory ==
    /\ pc = "key"
    /\ pc' = "die"
    /\ UNCHANGED <<EditorVars, ev, env, key_c, stdin, esc, arrived, SigVars,
                   TtyVars>>

\* term_shutdown, as far as the attributes go: tcsetattr(oldtio) succeeds,
\* or it fails and term_shutdown calls die.
term_shutdown ==
    /\ term_initialized' = 0
    /\ \E ok \in BOOLEAN :
          IF ok
          THEN tattr' = oldtio /\ pc' = "exit"
          ELSE pc' = "die" /\ UNCHANGED tattr

\* die: term_shutdown if term_initialized is set, then exit(1).
die ==
    /\ pc = "die"
    /\ IF term_initialized # 0
       THEN term_shutdown
       ELSE pc' = "exit" /\ UNCHANGED <<tattr, term_initialized>>
    /\ UNCHANGED <<EditorVars, ev, env, key_c, stdin, esc, arrived, SigVars>>

NextBoot == TermInit \/ RunStart \/ OutOfMemory \/ die \/ NextSig

InitBoot == InitState(SigEnv) /\ TermBoot
SpecBoot == InitBoot /\ [][NextBoot]_vars

(***************************************************************************)
(* The row operations on their own: a document whose row 0 is absent,      *)
(* emptied or holds a text, the cursor in any column up to two behind the  *)
(* longest text, and the step that inserts a character at the cursor and   *)
(* then removes the character at the same place.                           *)
(***************************************************************************)
RowEnv ==
    [sizes |-> {WinSize(MaxRowLen + 4, 3)},
     rowtexts |-> TextsUpTo({CH_h, CH_i}, MaxRowLen),
     cmdtexts |-> {<<CH_q>>},
     names |-> {NULLNAME},
     files |-> {Files(NoFile, NoFile)},
     faults |-> {IoOk},
     record |-> FALSE]

\* The documents of one row: none typed, one typed, one typed and emptied.
RowDocs ==
    {buf_create(INITIAL_BUFFER_ROWS)}
      \cup {TypeRow(buf_create(INITIAL_BUFFER_ROWS), 0, t, 1) : t \in RowEnv.rowtexts}
      \cup {EmptyRow(TypeRow(buf_create(INITIAL_BUFFER_ROWS), 0, <<CH_h>>, 1), 0)}

InitRow ==
    /\ env = RowEnv
    /\ buf \in RowDocs
    /\ cmd = [s |-> <<NUL>>, len |-> 0, size |-> INITIAL_ROW_SIZE,
              alloc |-> INITIAL_CMD_SIZE]
    /\ x \in 0 .. (MaxRowLen + 2)
    /\ y = 0
    /\ mode = "MODE_INSERT"
    /\ storedx = 0
    /\ name \in env.names
    /\ name_needs_free = FALSE
    /\ modified = (buf.len # 0)
    /\ written = FALSE
    /\ done = FALSE
    /\ size \in env.sizes
    /\ fs \in env.files
    /\ out = NoOut
    /\ saved = buf_create(INITIAL_BUFFER_ROWS)
    /\ wrote = FALSE
    /\ scn = -1
    /\ resized = FALSE
    /\ ev = NoEvent
    /\ TermReady

\* buf_char_insert(&st->buf, y, c, x), then buf_char_remove(&st->buf, y, x).
InsertRemove ==
    /\ \E c \in AllChars(env.rowtexts) :
           buf' = buf_char_remove(buf_char_insert(buf, y, c, x), y, x)
    /\ modified' = TRUE
    /\ UNCHANGED <<cmd, size, x, y, mode, storedx, name, name_needs_free, written,
                   done, fs, out, saved, wrote, scn, resized, ev, env, TermVars>>

NextRow == InsertRemove
SpecRow == InitRow /\ [][NextRow]_vars

(***************************************************************************)
(* A wide window: the command line takes as many characters as the         *)
(* command buffer's first allocation has bytes; nothing is typed into the  *)
(* rows.                                                                   *)
(***************************************************************************)
WideEnv ==
    [sizes |-> {WinSize(INITIAL_CMD_SIZE + 3, 2)},
     rowtexts |-> {},
     cmdtexts |-> {[k \in 1 .. n |-> CH_q] : n \in 1 .. INITIAL_CMD_SIZE},
     names |-> {NULLNAME},
     files |-> {Files(NoFile, NoFile)},
     faults |-> {IoOk},
     record |-> FALSE]

InitWide == InitEnv(WideEnv)
SpecWide == InitWide /\ [][Next]_vars

(***************************************************************************)
(* A long row: buf_char_insert and buf_char_remove applied to row 0, at    *)
(* its start, at its last byte and at its end, until the row has grown     *)
(* twice.                                                                  *)
(***************************************************************************)
GrowEnv ==
    [sizes |-> {WinSize(MaxWidth, MaxHeight)},
     rowtexts |-> {<<CH_h>>},
     cmdtexts |-> {<<CH_q>>},
     names |-> {NULLNAME},
     files |-> {Files(NoFile, NoFile)},
     faults |-> {IoOk},
     record |-> FALSE]

\* The indices the operations are called with on a row of len bytes.
Indices(len) == {0, len} \cup (IF len > 0 THEN {len - 1} ELSE {})

\* buf_char_insert(&st->buf, 0, 'h', index).
InsertChar ==
    /\ buf_elem_len(buf, 0) < MaxLong
    /\ \E index \in Indices(buf_elem_len(buf, 0)) :
           buf' = buf_char_insert(buf, 0, CH_h, index)
    /\ modified' = TRUE
    /\ UNCHANGED <<cmd, size, x, y, mode, storedx, name, name_needs_free, written,
                   done, fs, out, saved, wrote, scn, resized, ev, env, TermVars>>

\* buf_char_remove(&st->buf, 0, index).
RemoveChar ==
    /\ \E index \in Indices(buf_elem_len(buf, 0)) :
           buf' = buf_char_remove(buf, 0, index)
    /\ modified' = TRUE
    /\ UNCHANGED <<cmd, size, x, y, mode, storedx, name, name_needs_free, written,
                   done, fs, out, saved, wrote, scn, resized, ev, env, TermVars>>

NextGrow == InsertChar \/ RemoveChar
InitGrow == InitEnv(GrowEnv)
SpecGrow == InitGrow /\ [][NextGrow]_vars

(***************************************************************************)
(* The row array made smaller: rows among the first MaxSlots are created,  *)
(* and buf_resize is called with a size of 1 .. MaxSlots below the array's *)
(* size.  (With size 0 the loop of lines 855-860 never meets its end.)     *)
(***************************************************************************)
\* buf_char_insert(&st->buf, elem, 'h', 0) on an absent row.
CreateRow ==
    /\ \E elem \in 0 .. (MaxSlots - 1) :
           /\ IF elem >= buf.size THEN TRUE ELSE buf.b[elem] = NULL
           /\ buf' = buf_char_insert(buf, elem, CH_h, 0)
    /\ modified' = TRUE
    /\ UNCHANGED <<cmd, size, x, y, mode, storedx, name, name_needs_free, written,
                   done, fs, out, saved, wrote, scn, resized, ev, env, TermVars>>

\* buf_resize(&st->buf, sz) with sz below the array's size.
Shrink ==
    /\ \E sz \in 1 .. MaxSlots :
           /\ sz < buf.size
           /\ buf' = buf_resize(buf, sz)
    /\ UNCHANGED <<cmd, size, x, y, mode, storedx, name, name_needs_free, modified,
                   written, done, fs, out, saved, wrote, scn, resized, ev, env,
                   TermVars>>

NextShrink == CreateRow \/ Shrink
InitShrink == InitEnv(GrowEnv)
SpecShrink == InitShrink /\ [][NextShrink]_vars

(***************************************************************************)
(* Rows at and behind the end of the row array: a first character is       *)
(* inserted into a row whose index is around the array's size or around    *)
(* the sizes it grows to.  A store behind the array either goes unnoticed  *)
(* or ends the process.                                                    *)
(***************************************************************************)
Elems ==
    {0, INITIAL_BUFFER_ROWS - 1, INITIAL_BUFFER_ROWS, INITIAL_BUFFER_ROWS + 1,
     INITIAL_BUFFER_ROWS + BUF_SIZE_INCREMENT - 1,
     INITIAL_BUFFER_ROWS + BUF_SIZE_INCREMENT,
     INITIAL_BUFFER_ROWS + BUF_SIZE_INCREMENT + 1,
     INITIAL_BUFFER_ROWS + 2 * BUF_SIZE_INCREMENT}

\* The cursor being on row elem, buf_char_insert(&st->buf, elem, 'h', 0).
InsertAt ==
    /\ pc = "wait"
    /\ \E elem \in Elems :
           /\ IF elem >= buf.size THEN TRUE ELSE buf.b[elem] = NULL
           /\ y' = elem
           /\ IF elem < Grown(buf, elem).size
              THEN buf' = buf_char_insert(buf, elem, CH_h, 0) /\ pc' = pc
              ELSE \/ buf' = buf_char_insert(buf, elem, CH_h, 0) /\ pc' = pc
                   \/ buf' = buf /\ pc' = "killed"
    /\ modified' = TRUE
    /\ UNCHANGED <<cmd, size, x, mode, storedx, name, name_needs_free, written,
                   done, fs, out, saved, wrote, scn, resized, ev, env, key_c, stdin,
                   esc, arrived, SigVars, TtyVars>>

NextSlots == InsertAt
InitSlots == InitEnv(GrowEnv)
SpecSlots == InitSlots /\ [][NextSlots]_vars

(***************************************************************************)
(* A tall window: two rows more than the row array has slots at first.     *)
(* Nothing is typed into the rows; the cursor moves.  A read behind the    *)
(* array finds a null pointer or a pointer to some str, or ends the        *)
(* process.                                                                *)
(***************************************************************************)
\* A str found through a pointer that is none of the document's.
WildRow == [s |-> <<CH_BANG, NUL>>, len |-> 1, size |-> 0, alloc |-> 0]

TallEnv(bd) ==
    [sizes |-> {WinSize(2, INITIAL_BUFFER_ROWS + 3)},
     rowtexts |-> {},
     cmdtexts |-> {<<CH_q>>},
     names |-> {NULLNAME},
     files |-> {Files(NoFile, NoFile)},
     faults |-> {IoOk},
     record |-> TRUE,
     beyond |-> bd]

\* The handler of a key reads a slot behind the array, and the read faults.
Segv ==
    /\ pc = "wait" /\ ~done
    /\ mode \in {"MODE_NORMAL", "MODE_INSERT"}
    /\ y >= buf.size \/ (y + 1 >= buf.size /\ y < size[1] - 2)
    /\ pc' = "killed"
    /\ UNCHANGED <<EditorVars, ev, env, key_c, stdin, esc, arrived, SigVars, TtyVars>>

NextTall == Next \/ Segv
InitTall == \E bd \in {NULL, WildRow} : InitEnv(TallEnv(bd))
SpecTall == InitTall /\ [][NextTall]_vars

(***************************************************************************)
(* Properties.                                                             *)
(***************************************************************************)
\* The command text Enter executes, its leading token (the text before the
\* first space), its argument (the text behind that space), whether the
\* token ends with the force flag, and the token without it.
CmdText == CText(cmd.s)
SpacePos ==
    IF \E k \in 1 .. Len(CmdText) : CmdText[k] = CH_SPACE
    THEN CHOOSE k \in 1 .. Len(CmdText) :
             CmdText[k] = CH_SPACE /\ \A m \in 1 .. (k - 1) : CmdText[m] # CH_SPACE
    ELSE 0
Token == IF SpacePos = 0 THEN CmdText ELSE SubSeq(CmdText, 1, SpacePos - 1)
Argument == IF SpacePos = 0 THEN <<>> ELSE SubSeq(CmdText, SpacePos + 1, Len(CmdText))
Forced == Token # <<>> /\ Token[Len(Token)] = CH_BANG
Verb == IF Forced THEN SubSeq(Token, 1, Len(Token) - 1) ELSE Token
VerbQ == <<CH_q>>
VerbW == <<CH_w>>
VerbWQ == <<CH_w, CH_q>>

\* The path a write command is to write: its argument, else the associated
\* name, else none.
Goal == IF Argument # <<>> THEN Argument ELSE name

\* The step is Enter executing a command (exec_cmd ran), and the write step
\* of that command succeeded.
Executes == out'.ran
WriteOk == out'.ran /\ out'.oflag # "none" /\ out'.ret = 0
FileExistsMsg == "file exists (add ! to override)"

\* The rows of a document: for each index, absent or the row's bytes.
Rows(bf) == [i \in 0 .. (bf.size - 1) |->
                IF bf.b[i] = NULL THEN NULLNAME ELSE Bytes(bf.b[i])]

\* The bytes of rows i .. len - 1, each followed by a newline.
RECURSIVE Contents(_, _)
Contents(bf, i) ==
    IF i >= bf.len THEN <<>>
    ELSE (IF bf.b[i] = NULL THEN <<>> ELSE Bytes(bf.b[i])) \o <<NEWLINE>>
           \o Contents(bf, i + 1)

C2_ScenarioA ==
    scn = Len(ScenarioA) =>
        fs[name] = <<CH_h, CH_i, NEWLINE>> /\ done /\ ~modified

\* The eight events of the scenario have happened.
C2_Witness == scn = Len(ScenarioA) /\ out.ran /\ mode = "MODE_NORMAL"

\* C3: q without the force flag while modified fails with "buffer modified"
\* and leaves done false and modified, written, the name and the document
\* unchanged; q! sets done whatever modified is, and q sets done when
\* modified is false.
C3_Quit ==
    [][(Executes /\ Verb = VerbQ) =>
           IF ~Forced /\ modified
           THEN /\ out'.ret = -1 /\ out'.msg = "buffer modified"
                /\ ~done'
                /\ UNCHANGED <<modified, written, name, buf>>
           ELSE done' /\ out'.ret = 0]_vars

\* q was refused on a modified buffer.
C3_Witness == out.ran /\ out.msg = "buffer modified" /\ modified /\ ~done

\* C4 as stated: in every reachable state, w without the force flag on a
\* target that exists fails with the file-exists error and leaves the
\* content stored under the target untouched.
C4_AsStated ==
    [][(Executes /\ Verb = VerbW /\ ~Forced /\ Goal # NULLNAME /\ fs[Goal] # NoFile) =>
           out'.ret = -1 /\ out'.msg = FileExistsMsg /\ fs'[Goal] = fs[Goal]]_vars

\* C4 (amended): the same in every reachable state in which written is
\* false.
C4_FileExists ==
    [][(Executes /\ Verb = VerbW /\ ~Forced /\ ~written
          /\ Goal # NULLNAME /\ fs[Goal] # NoFile) =>
           out'.ret = -1 /\ out'.msg = FileExistsMsg /\ fs'[Goal] = fs[Goal]]_vars

\* w g was refused because g exists, and g holds what it held.
C4_Witness ==
    out.ran /\ out.msg = FileExistsMsg /\ ~written /\ fs[NameG] = OldContent

\* C5: the write step opens its target with truncate exactly when the force
\* flag is present or written is true, and with fail-if-exists otherwise;
\* written is true exactly when an earlier write step succeeded.
C5_OpenPolicy ==
    /\ [](written <=> wrote)
    /\ [][(Executes /\ Verb \in {VerbW, VerbWQ} /\ Goal # NULLNAME) =>
              out'.oflag = IF Forced \/ written THEN "trunc" ELSE "excl"]_vars

\* A write without force that found written set and opened with truncate,
\* after an earlier write had created the file.
C5_Witness ==
    out.ran /\ out.oflag = "trunc" /\ out.ret = 0 /\ wrote /\ ~done /\ modified = FALSE
      /\ fs[NameF] = <<CH_h, NEWLINE>>

\* C6: done becomes true only when Enter in CommandLine mode executes q
\* (unmodified or forced) or a wq whose write step succeeded; a wq whose
\* write step fails leaves done false.
C6_Done ==
    [][/\ (~done /\ done') =>
             /\ mode = "MODE_COMMAND_LINE" /\ Executes
             /\ \/ Verb = VerbQ /\ (~modified \/ Forced)
                \/ Verb = VerbWQ /\ WriteOk
       /\ (Executes /\ Verb = VerbWQ /\ ~WriteOk) => ~done']_vars

\* wq wrote the file and set done.
C6_Witness == done /\ out.ran /\ out.oflag # "none" /\ out.ret = 0

\* C7: if modified is false the rows equal the rows at the latest
\* successful write (the initial empty document if there was none); an
\* Insert-mode event that changes a row sets modified, a successful write
\* clears it, a failed write leaves it unchanged.
C7_Modified ==
    /\ [](~modified => Rows(buf) = Rows(saved) /\ buf.len = saved.len)
    /\ [][/\ (mode = "MODE_INSERT" /\ Rows(buf') # Rows(buf)) => modified'
          /\ WriteOk => ~modified'
          /\ (Executes /\ Verb \in {VerbW, VerbWQ} /\ ~WriteOk) =>
                 modified' = modified]_vars

\* A document with a row in it was written, and nothing changed since.
C7_Witness == ~modified /\ wrote /\ buf.len > 0 /\ mode = "MODE_INSERT"

\* C8: the write step's target is the argument if one is given, else the
\* associated name; with neither the command fails with "no file name
\* specified" and touches neither storage nor a flag.  An argument becomes
\* the associated name exactly when there was none, and an associated name
\* is never replaced.
C8_Target ==
    [][/\ (Executes /\ Verb \in {VerbW, VerbWQ}) =>
             /\ IF Goal = NULLNAME
                THEN /\ out'.ret = -1 /\ out'.msg = "no file name specified"
                     /\ UNCHANGED <<fs, modified, written, done>>
                ELSE /\ out'.oflag # "none"
                     /\ \A p \in Paths \ {Goal} : fs'[p] = fs[p]
                     /\ out'.ret = 0 => fs'[Goal] = Contents(buf, 0)
             /\ name' = IF name = NULLNAME /\ Argument # <<>> THEN Argument ELSE name
       /\ name # NULLNAME => name' = name]_vars

\* The argument g became the associated name, though the write to g failed.
C8_Witness == name = NameG /\ name_needs_free /\ out.ran /\ out.msg = FileExistsMsg

\* C9: a command whose leading token is not q, w or wq (each with or without
\* the force flag) returns success and leaves done, modified, written, the
\* name, the document and storage unchanged.
C9_NoOp ==
    [][(Executes /\ Verb \notin {VerbQ, VerbW, VerbWQ}) =>
           out'.ret = 0 /\ UNCHANGED <<done, modified, written, name, buf, fs>>]_vars

\* A command ran on a modified buffer, returned success, opened nothing and
\* did not set done: neither q nor a write.
C9_Witness == out.ran /\ out.ret = 0 /\ out.oflag = "none" /\ modified /\ ~done

\* C10: a successful write stores the rows 0 .. len - 1 in index order, each
\* followed by one newline (an absent row gives the newline alone), and
\* the number of pending segments never exceeds IOV_SIZE.
C10_Written ==
    /\ out.maxcnt <= IOV_SIZE
    /\ (out.ran /\ out.ret = 0) => fs[name] = Contents(buf, 0)

\* A document with absent rows and more segments than one batch holds was
\* written with the array full at some point.
C10_Witness ==
    /\ out.ran /\ out.ret = 0 /\ out.maxcnt = IOV_SIZE
    /\ buf.len = MaxRows
    /\ \E i \in 0 .. (buf.len - 1) : buf.b[i] = NULL
    /\ \E i \in 0 .. (buf.len - 1) : buf.b[i] # NULL /\ buf.b[i].len = 0

\* C11: on every path of buf_write after the target was opened - a failed
\* flush in the middle of the rows and a failed final flush included - the
\* descriptor is closed before buf_write returns, and a failure is reported
\* to the caller.
C11_Closed ==
    (out.ran /\ out.opened) => out.closed /\ (out.fault => out.ret = -1)

\* The cells, as far as the first terminator, and the length of a row, an
\* absent row counting as the empty one.
RowCells(r) == IF r = NULL THEN <<NUL>> ELSE r.s
RowLen(r) == IF r = NULL THEN 0 ELSE r.len

\* C12: inserting a character at (r, c) and then removing the character at
\* (r, c) leaves row r with the content, the length and the terminator
\* position it had, for every row (absent or present) and every column.
C12_RoundTrip ==
    [][InsertRemove =>
           /\ RowLen(buf'.b[y]) = RowLen(buf.b[y])
           /\ RowCells(buf'.b[y]) = RowCells(buf.b[y])]_vars

\* The step handles a cursor-right event in Normal or Insert mode: the right
\* arrow, or l in Normal mode.
CursorRight ==
    \/ mode \in {"MODE_NORMAL", "MODE_INSERT"} /\ ev' = Key("KEY_ARROW_RIGHT")
    \/ mode = "MODE_NORMAL" /\ ev' = Char(CH_l)

\* C13: in Normal and Insert mode a cursor-right event with x in the last
\* column of the window or equal to the length of the current row (0 for
\* an absent row) leaves x, y, the mode and the document unchanged.
C13_RightEdge ==
    [][(CursorRight /\ (x = size[0] - 1 \/ x = buf_elem_len(buf, y))) =>
           UNCHANGED <<x, y, mode, buf>>]_vars

\* l was pressed in Normal mode on the absent second row: the cursor is still
\* in column 0.
C13_Witness ==
    ev = Char(CH_l) /\ mode = "MODE_NORMAL" /\ y = 1 /\ x = 0 /\ buf.b[y] = NULL

\* The escape sequences readkey knows, and the step in which readkey
\* returns its event.
Recognized ==
    {<<ESC>>, <<ESC, CH_LBRACKET, CH_3, CH_TILDE>>}
      \cup {<<ESC, CH_LBRACKET, b>> : b \in {CH_A, CH_B, CH_C, CH_D}}
Returns == pc # "key" /\ pc' = "key"

\* C16: an escape-initiated sequence other than ESC alone, ESC [ A/B/C/D and
\* ESC [ 3 ~ gives no key event from any byte consumed for it: when readkey
\* returns, the bytes consumed since the latest ESC are a recognized
\* sequence, or the event was decoded from a byte read behind them.
C16_Discarded == [][Returns => (esc' = <<>> \/ esc' \in Recognized)]_vars

\* C17: a byte 0x80..0xFF yields no key event, whether char is signed or
\* not, and the byte 0x7F yields Backspace only.
C17_HighBytes ==
    [][(Returns /\ pc = "read") =>
           /\ key_c' < HIGH_BYTE
           /\ key_c' = DEL => ev' = Key("KEY_BACKSPACE")]_vars

\* C15: when the process has ended through die, the terminal has the
\* attributes it had before term_init switched it to raw mode.
C15_Restored == pc = "exit" => tattr = oldtio

\* The step from the mode from to the mode to, on one of the events.
ModeStep(from, to, events) == mode = from /\ mode' = to /\ ev' \in events

\* C18: the mode starts as Normal; it changes only from Normal to Insert on
\* i or a, from Normal to CommandLine on :, from Insert to Normal on Esc and
\* from CommandLine to Normal on Esc or Enter, and on these keys it does;
\* every other key event and every resize event leaves it as it is.
C18_Transitions ==
    /\ mode = "MODE_NORMAL"
    /\ [][/\ mode' # mode =>
                 \/ ModeStep("MODE_NORMAL", "MODE_INSERT", {Char(CH_i), Char(CH_a)})
                 \/ ModeStep("MODE_NORMAL", "MODE_COMMAND_LINE", {Char(CH_COLON)})
                 \/ ModeStep("MODE_INSERT", "MODE_NORMAL", {Key("KEY_ESC")})
                 \/ ModeStep("MODE_COMMAND_LINE", "MODE_NORMAL",
                             {Key("KEY_ESC"), Key("KEY_ENTER")})
          /\ (mode = "MODE_NORMAL" /\ ev' \in {Char(CH_i), Char(CH_a)}) =>
                 mode' = "MODE_INSERT"
          /\ (mode = "MODE_NORMAL" /\ ev' = Char(CH_COLON)) =>
                 mode' = "MODE_COMMAND_LINE"
          /\ (mode # "MODE_NORMAL" /\ ev' = Key("KEY_ESC")) => mode' = "MODE_NORMAL"
          /\ (mode = "MODE_COMMAND_LINE" /\ ev' = Key("KEY_ENTER")) =>
                 mode' = "MODE_NORMAL"
          /\ ev' = ResizeEvent => mode' = mode]_vars

\* The window was resized while the editor was in Insert mode, and it still
\* is.
C18_Witness == mode = "MODE_INSERT" /\ ev = ResizeEvent

\* C19: every step out of CommandLine mode ends in Normal mode with an empty
\* command buffer, x the value saved when : was pressed and y as it was;
\* the saved value is that of x at the : and is kept while in CommandLine
\* mode; the command buffer is empty in every Normal or Insert state.
C19_Exit ==
    /\ [][/\ (mode = "MODE_COMMAND_LINE" /\ mode' # mode) =>
                 /\ mode' = "MODE_NORMAL"
                 /\ cmd'.len = 0 /\ cmd'.s[1] = NUL
                 /\ x' = storedx /\ y' = y
          /\ (mode # "MODE_COMMAND_LINE" /\ mode' = "MODE_COMMAND_LINE") =>
                 storedx' = x
          /\ mode = "MODE_COMMAND_LINE" => storedx' = storedx]_vars
    /\ [](mode \in {"MODE_NORMAL", "MODE_INSERT"} => cmd.len = 0 /\ cmd.s[1] = NUL)

\* Enter was pressed on a command that failed: the editor is in Normal mode,
\* the cursor back in the column it had left.
C19_Witness ==
    /\ ev = Key("KEY_ENTER") /\ out.ran /\ out.ret < 0
    /\ mode = "MODE_NORMAL" /\ cmd.len = 0 /\ x = storedx /\ x > 0

\* C20: as long as the window keeps its size, the command buffer is never
\* longer than the window's width less the column of the colon.
C20_CmdBound ==
    (mode = "MODE_COMMAND_LINE" /\ ~resized) => cmd.len <= size[0] - 1

\* C14: winch runs only while the loop is inside pselect; a notification
\* that arrives outside the wait stays pending, at a later wait winch runs
\* for it, and the interrupted wait yields a Resize event, never the fatal
\* path; every pending notification leads to a Resize event.
C14_Masked ==
    /\ [][/\ (pending /\ ~pending') =>
                 pc = "wait" /\ win_resized' # 0 /\ intr'
          /\ (intr /\ pc' # pc) => (pc' = "size" /\ ev' = ResizeEvent)
          /\ (win_resized = 0 /\ win_resized' # 0) => pc = "wait"]_vars
    /\ [](intr => pc = "wait" /\ win_resized # 0)
    /\ (pending ~> (pc = "size" /\ ev = ResizeEvent))

\* A notification arrived while a key was being handled and is pending.
C14_Witness == pending /\ pc = "key" /\ notified = 1

\* Enter is pressed in Normal or Insert mode.
EnterKey == mode \in {"MODE_NORMAL", "MODE_INSERT"} /\ ev' = Key("KEY_ENTER")

\* C21: Enter in Insert or Normal mode leaves the rows, the logical length
\* and modified as they are; with y below the last editable row it sets x to
\* 0 and adds one to y, otherwise it leaves the cursor.
C21_Enter ==
    [][EnterKey =>
           /\ buf' = buf
           /\ modified' = modified
           /\ IF y < size[1] - 2
              THEN x' = 0 /\ y' = y + 1
              ELSE x' = x /\ y' = y]_vars

\* Enter was pressed in Insert mode behind the two letters of row 0: the
\* row still holds both, the cursor is at the start of row 1.
C21_Witness ==
    /\ ev = Key("KEY_ENTER") /\ mode = "MODE_INSERT"
    /\ x = 0 /\ y = 1
    /\ buf.b[0] # NULL /\ buf.b[0].len = 2 /\ buf.b[1] = NULL

\* The terminator of str is the cell of index len.
Terminated(str) == FirstNul(str.s) = str.len + 1

\* C27: in every present row and in the command buffer the terminator is
\* the cell of index len, so that the text up to the terminator is the
\* first len bytes.
C27_Terminator ==
    /\ Terminated(cmd)
    /\ \A i \in DOMAIN buf.b : buf.b[i] # NULL => Terminated(buf.b[i])

\* C28: in Normal and in Insert mode the cursor is never on the last row of
\* the window, the status line.
C28_NotStatusRow ==
    mode \in {"MODE_NORMAL", "MODE_INSERT"} => y <= size[1] - 2

\* C22: in every present row len <= size - 1; a row is created with the
\* initial row size, and its size changes only by the row increment, in a
\* step that inserts a character into the row when it is full.
C22_Capacity ==
    /\ [](\A i \in DOMAIN buf.b : buf.b[i] # NULL => buf.b[i].len <= buf.b[i].size - 1)
    /\ [][\A i \in DOMAIN buf.b :
              /\ (buf.b[i] = NULL /\ buf'.b[i] # NULL) =>
                     buf'.b[i].size = INITIAL_ROW_SIZE
              /\ (buf.b[i] # NULL /\ buf'.b[i].size # buf.b[i].size) =>
                     /\ buf'.b[i].size = buf.b[i].size + ROW_SIZE_INCREMENT
                     /\ buf.b[i].len = buf.b[i].size - 1
                     /\ buf'.b[i].len = buf.b[i].len + 1]_vars

\* Row 0 has grown once and is full again.
C22_Witness ==
    /\ buf.b[0] # NULL
    /\ buf.b[0].size = INITIAL_ROW_SIZE + ROW_SIZE_INCREMENT
    /\ buf.b[0].len = buf.b[0].size - 1

\* C26: the size recorded for the command buffer is at most the number of
\* bytes allocated for it, and the cells in use, the terminator included,
\* lie within the allocated bytes.
C26_CmdStorage == cmd.size <= cmd.alloc /\ Len(cmd.s) <= cmd.alloc

\* The indices below n of the present rows of b, and the logical length
\* they call for: the highest of them plus one, 0 if there is none.
PresentBelow(b, n) == {i \in 0 .. (n - 1) : b[i] # NULL}
LengthBelow(b, n) ==
    IF PresentBelow(b, n) = {} THEN 0
    ELSE 1 + CHOOSE i \in PresentBelow(b, n) : \A k \in PresentBelow(b, n) : k <= i

\* C24: a step that makes the row array smaller than the logical length
\* leaves the slots below the new size, with the rows they held, sets the
\* logical length to the highest present index left plus one, or to 0 when
\* no present row is left.
C24_Shrink ==
    [][(buf'.size < buf.size /\ buf'.size < buf.len) =>
           /\ DOMAIN buf'.b = 0 .. (buf'.size - 1)
           /\ \A i \in DOMAIN buf'.b : buf'.b[i] = buf.b[i]
           /\ buf'.len = LengthBelow(buf.b, buf'.size)]_vars

\* C23: when a character is inserted into a row whose index is at or
\* beyond the array's size, the array is grown so that the index is below
\* the size before the slot is used, the rows it held are kept and the new
\* slots are absent.
C23_Grown ==
    [][y' >= buf.size =>
           /\ y' < Grown(buf, y').size
           /\ \A i \in 0 .. (buf.size - 1) : Grown(buf, y').b[i] = buf.b[i]
           /\ \A i \in buf.size .. (Grown(buf, y').size - 1) :
                  Grown(buf, y').b[i] = NULL]_vars

\* The index of the slot the handler of the key ev' reads in Normal or
\* Insert mode for a movement, Backspace or Delete; -1 if it reads none.
RowRead ==
    LET normal == mode = "MODE_NORMAL"
        insert == mode = "MODE_INSERT"
    IN IF ~(normal \/ insert) THEN -1
       ELSE IF ev' = Key("KEY_ARROW_DOWN") \/ (normal /\ ev' = Char(CH_j))
       THEN (IF y < size[1] - 2 THEN y + 1 ELSE -1)
       ELSE IF ev' = Key("KEY_ARROW_UP") \/ (normal /\ ev' = Char(CH_k))
       THEN (IF y > 0 THEN y - 1 ELSE -1)
       ELSE IF ev' = Key("KEY_ARROW_RIGHT") \/ (normal /\ ev' \in {Char(CH_l), Char(CH_a)})
       THEN (IF x < size[0] - 1 THEN y ELSE -1)
       ELSE IF normal /\ ev' = Char(CH_DOLLAR) THEN y
       ELSE IF normal /\ ev' = Key("KEY_BACKSPACE")
       THEN (IF x = 0 /\ y > 0 THEN y - 1 ELSE -1)
       ELSE IF insert /\ ev' = Key("KEY_BACKSPACE") THEN (IF x > 0 THEN y ELSE -1)
       ELSE IF insert /\ ev' = Key("KEY_DELETE") THEN y
       ELSE -1

\* C25: every row slot a cursor movement or an Insert-mode Backspace or
\* Delete reads has an index below the array's size.
C25_InArray == [][pc' = pc => RowRead < buf.size]_vars

=============================================================================
